---- MODULE Spec2Model ----
(***************************************************************************)
(* Language Detection Tool (src/AJ.py): the interactive menu, the external *)
(* collaborator (github-linguist), the pygments-based classifier for one   *)
(* file and for a directory tree, and the display of the result.           *)
(*                                                                         *)
(* Numbers that the program holds as percentages are kept in TENTHS of a   *)
(* percent (100 -> 1000, 33.3 -> 333), so that round(x, 1) is integer      *)
(* arithmetic.  A file's bytes are kept as a run of `pad` ASCII bytes      *)
(* followed by the byte sequence `tail`, so that the real read cap of 8192 *)
(* bytes is kept while the interesting bytes stay few.                     *)
(***************************************************************************)
EXTENDS Integers, Sequences, FiniteSets, TLC

VARIABLES
    pc,             \* "menu" | "chosen" | "scan" | "exited" | "crashed" (uncaught exception)
    choice,         \* the menu choice being served / served last
    collab,         \* how detect_with_linguist ended: "none" | "notfound" | "error" | "parsed"
    linguist,       \* the value detect_with_linguist returned (None is JSON null)
    pathKind,       \* what the entered path is: "none" | "file" | "dir"
    usedInternal,   \* pygments_language_detect was called for this command
    remaining,      \* entries path.rglob('*') has still to yield
    language_stats, \* insertion-ordered <<label, count>> pairs (the defaultdict)
    total_files,    \* total_files of the running scan
    regularSeen,    \* number of regular files rglob has yielded so far (history)
    last,           \* the file classified last, what the program did with it (history)
    divisions,      \* number of divisions by total_files evaluated at the return
    results,        \* the value handed to display_results
    printed         \* what display_results printed

vars == <<pc, choice, collab, linguist, pathKind, usedInternal, remaining, language_stats,
          total_files, regularSeen, last, divisions, results, printed>>

----------------------------------------------------------------------------
(* Bounds of the model *)

\* entries a scanned directory tree holds at most
MaxEntries == 3

(* Program constants *)

\* f.read(8192)
ReadCap == 8192

\* {'Binary': 100}, {lexer.name: 100}, == 100 in display_results: 100 percent, in tenths
Hundred == 1000

binary_extensions ==
    { <<".", "d", "e", "b">>, <<".", "b", "i", "n">>, <<".", "e", "x", "e">>,
      <<".", "z", "i", "p">>, <<".", "t", "a", "r">>, <<".", "g", "z">>,
      <<".", "p", "n", "g">>, <<".", "j", "p", "g">> }

----------------------------------------------------------------------------
(* Inputs *)

PyName     == <<"a", ".", "p", "y">>
PngName    == <<"a", ".", "p", "n", "g">>
TarGzName  == <<"a", ".", "t", "a", "r", ".", "g", "z">>
ScriptName == <<"s", "c", "r", "i", "p", "t">>
DotPngName == <<".", "p", "n", "g">>

FileNames == {PyName, PngName, TarGzName, ScriptName, DotPngName}

\* File contents: `pad` bytes 'A' followed by the bytes of `tail`.
\* 65 is 'A', 195 169 is a two-byte character, 255 is never valid in UTF-8.
EmptyFile     == [pad |-> 0, tail |-> <<>>]
AsciiFile     == [pad |-> 0, tail |-> <<65>>]
AccentFile    == [pad |-> 0, tail |-> <<195, 169>>]
InvalidFile   == [pad |-> 0, tail |-> <<65, 255>>]
TruncatedFile == [pad |-> 0, tail |-> <<195>>]
\* a valid two-byte character that straddles the read cap
StraddleFile  == [pad |-> ReadCap - 1, tail |-> <<195, 169>>]
\* the only invalid byte is the last one inside the read cap
EdgeInvalidFile == [pad |-> ReadCap - 1, tail |-> <<255>>]
\* the only invalid byte is the first one beyond the read cap
LateInvalidFile == [pad |-> ReadCap, tail |-> <<255>>]

Contents == {EmptyFile, AsciiFile, AccentFile, InvalidFile, TruncatedFile,
             StraddleFile, EdgeInvalidFile, LateInvalidFile}

\* names of pygments lexers (lexer.name)
Languages == {"Python", "C"}

ClassNotFound == "ClassNotFound"

\* what a pygments lookup answers for a file: a lexer name or ClassNotFound
LexerAnswers == Languages \cup {ClassNotFound}

\* a regular file: its name, whether open/read succeeds, its bytes, and what
\* guess_lexer_for_filename and get_lexer_for_filename answer for it
Files == [name : FileNames, readable : BOOLEAN, content : Contents,
          guess : LexerAnswers, byname : LexerAnswers]

----------------------------------------------------------------------------
(* pathlib and bytes.decode *)

\* index of the last "." of name, 0 when there is none (str.rfind, 1-based)
RECURSIVE RFindDot(_, _)
RFindDot(name, i) ==
    IF i = 0 THEN 0
    ELSE IF name[i] = "." THEN i
    ELSE RFindDot(name, i - 1)

\* PurePath.suffix: name[i:] when 0 < i < len(name) - 1 (0-based i), else ''
Suffix(name) ==
    LET i == RFindDot(name, Len(name))
    IN  IF 1 < i /\ i < Len(name) THEN SubSeq(name, i, Len(name)) ELSE <<>>

Min(a, b) == IF a < b THEN a ELSE b

\* f.read(n): the first n bytes of the file
Read(content, n) ==
    IF content.pad >= n
    THEN [pad |-> n, tail |-> <<>>]
    ELSE [pad |-> content.pad,
          tail |-> SubSeq(content.tail, 1, Min(Len(content.tail), n - content.pad))]

IsCont(b) == b \in 128..191

\* bytes.decode('utf-8') succeeds (strict decoder, well-formed sequences only)
RECURSIVE Utf8Valid(_)
Utf8Valid(b) ==
    IF b = <<>> THEN TRUE
    ELSE LET c == Head(b)
             n == Len(b)
         IN  IF c < 128 THEN Utf8Valid(Tail(b))
             ELSE IF c \in 194..223
             THEN n >= 2 /\ IsCont(b[2]) /\ Utf8Valid(SubSeq(b, 3, n))
             ELSE IF c \in 224..239
             THEN /\ n >= 3
                  /\ IF c = 224 THEN b[2] \in 160..191
                     ELSE IF c = 237 THEN b[2] \in 128..159
                     ELSE IsCont(b[2])
                  /\ IsCont(b[3])
                  /\ Utf8Valid(SubSeq(b, 4, n))
             ELSE IF c \in 240..244
             THEN /\ n >= 4
                  /\ IF c = 240 THEN b[2] \in 144..191
                     ELSE IF c = 244 THEN b[2] \in 128..143
                     ELSE IsCont(b[2])
                  /\ IsCont(b[3])
                  /\ IsCont(b[4])
                  /\ Utf8Valid(SubSeq(b, 5, n))
             ELSE FALSE

\* content.decode('utf-8', errors='ignore'): never raises
DecodesIgnoringErrors(sample) == TRUE

\* content.decode('utf-8') does not raise UnicodeDecodeError (the pad is ASCII)
Decodes(sample) == Utf8Valid(sample.tail)

----------------------------------------------------------------------------
(* pygments_language_detect: one file *)

\* path.suffix in binary_extensions
HasBinaryExtension(name) == Suffix(name) \in binary_extensions

\* DetectFile with open/read placed before the extension check
DetectFileOpenFirst(f) ==
    IF ~f.readable
    THEN [label |-> "Error", io |-> "fail", decoded |-> "n/a", lexer |-> "n/a"]
    ELSE IF HasBinaryExtension(f.name)
    THEN [label |-> "Binary", io |-> "ok", decoded |-> "n/a", lexer |-> "n/a"]
    ELSE IF ~Decodes(Read(f.content, ReadCap))
    THEN [label |-> "Binary", io |-> "ok", decoded |-> "fail", lexer |-> "n/a"]
    ELSE IF f.guess # ClassNotFound
    THEN [label |-> f.guess, io |-> "ok", decoded |-> "ok", lexer |-> "guess"]
    ELSE IF f.byname # ClassNotFound
    THEN [label |-> f.byname, io |-> "ok", decoded |-> "ok", lexer |-> "byname"]
    ELSE [label |-> "Error", io |-> "ok", decoded |-> "ok", lexer |-> "none"]

\* The nested try blocks around open/read/decode/lexer lookup, single-file branch.
\* ClassNotFound raised by get_lexer_for_filename inside the `except ClassNotFound`
\* handler is no UnicodeDecodeError, so it reaches the outer `except Exception`.
\*   io:      "n/a" (never opened) | "ok" | "fail"
\*   decoded: "n/a" | "ok" | "fail"
\*   lexer:   "n/a" | "guess" | "byname" | "none"
DetectFile(f) ==
    IF HasBinaryExtension(f.name)
    THEN [label |-> "Binary", io |-> "n/a", decoded |-> "n/a", lexer |-> "n/a"]
    ELSE IF ~f.readable
    THEN [label |-> "Error", io |-> "fail", decoded |-> "n/a", lexer |-> "n/a"]
    ELSE IF ~Decodes(Read(f.content, ReadCap))
    THEN [label |-> "Binary", io |-> "ok", decoded |-> "fail", lexer |-> "n/a"]
    ELSE IF f.guess # ClassNotFound
    THEN [label |-> f.guess, io |-> "ok", decoded |-> "ok", lexer |-> "guess"]
    ELSE IF f.byname # ClassNotFound
    THEN [label |-> f.byname, io |-> "ok", decoded |-> "ok", lexer |-> "byname"]
    ELSE [label |-> "Error", io |-> "ok", decoded |-> "ok", lexer |-> "none"]

\* ScanFile with the failure of open/read counted by the handler of the decode
ScanFileReadErrorAsBinary(f) ==
    IF HasBinaryExtension(f.name)
    THEN [label |-> "Binary", io |-> "n/a", decoded |-> "n/a", lexer |-> "n/a"]
    ELSE IF ~f.readable
    THEN [label |-> "Binary", io |-> "fail", decoded |-> "n/a", lexer |-> "n/a"]
    ELSE IF ~Decodes(Read(f.content, ReadCap))
    THEN [label |-> "Binary", io |-> "ok", decoded |-> "fail", lexer |-> "n/a"]
    ELSE IF f.guess # ClassNotFound
    THEN [label |-> f.guess, io |-> "ok", decoded |-> "ok", lexer |-> "guess"]
    ELSE IF f.byname # ClassNotFound
    THEN [label |-> f.byname, io |-> "ok", decoded |-> "ok", lexer |-> "byname"]
    ELSE [label |-> "Error", io |-> "ok", decoded |-> "ok", lexer |-> "none"]

\* The body of the folder loop for one regular file: the same nest of try blocks,
\* each branch naming the counter it increments.
ScanFile(f) ==
    IF HasBinaryExtension(f.name)
    THEN [label |-> "Binary", io |-> "n/a", decoded |-> "n/a", lexer |-> "n/a"]
    ELSE IF ~f.readable
    THEN [label |-> "Error", io |-> "fail", decoded |-> "n/a", lexer |-> "n/a"]
    ELSE IF ~Decodes(Read(f.content, ReadCap))
    THEN [label |-> "Binary", io |-> "ok", decoded |-> "fail", lexer |-> "n/a"]
    ELSE IF f.guess # ClassNotFound
    THEN [label |-> f.guess, io |-> "ok", decoded |-> "ok", lexer |-> "guess"]
    ELSE IF f.byname # ClassNotFound
    THEN [label |-> f.byname, io |-> "ok", decoded |-> "ok", lexer |-> "byname"]
    ELSE [label |-> "Error", io |-> "ok", decoded |-> "ok", lexer |-> "none"]

\* History of the file classified last: what the file is and what was done with it.
NoFile ==
    [seen |-> FALSE, name |-> <<>>, fileValid |-> TRUE, sampleValid |-> TRUE,
     label |-> "", io |-> "n/a", decoded |-> "n/a", lexer |-> "n/a"]

Observed(f, r) ==
    [seen |-> TRUE, name |-> f.name,
     fileValid |-> Utf8Valid(f.content.tail),
     sampleValid |-> Utf8Valid(Read(f.content, ReadCap).tail),
     label |-> r.label, io |-> r.io, decoded |-> r.decoded, lexer |-> r.lexer]

----------------------------------------------------------------------------
(* language_stats, the percentages, JSON values *)

\* language_stats[label] = 1 in place of += 1
RECURSIVE IncrementOverwrite(_, _)
IncrementOverwrite(stats, label) ==
    IF stats = <<>> THEN << <<label, 1>> >>
    ELSE IF Head(stats)[1] = label
    THEN << <<label, 1>> >> \o Tail(stats)
    ELSE << Head(stats) >> \o IncrementOverwrite(Tail(stats), label)

\* language_stats[label] += 1 on a defaultdict(int): dicts keep insertion order
RECURSIVE Increment(_, _)
Increment(stats, label) ==
    IF stats = <<>> THEN << <<label, 1>> >>
    ELSE IF Head(stats)[1] = label
    THEN << <<label, Head(stats)[2] + 1>> >> \o Tail(stats)
    ELSE << Head(stats) >> \o Increment(Tail(stats), label)

\* round(v / total * 100) without the digits argument: whole percents
RoundWholePercent(v, total) ==
    LET num == v * 100
        q   == num \div total
        r   == num % total
    IN  10 * (IF 2 * r < total THEN q
              ELSE IF 2 * r > total THEN q + 1
              ELSE IF q % 2 = 0 THEN q ELSE q + 1)

\* round(v / total * 100, 1) in tenths of a percent: nearest, ties to even
RoundPercent(v, total) ==
    LET num == v * 1000
        q   == num \div total
        r   == num % total
    IN  IF 2 * r < total THEN q
        ELSE IF 2 * r > total THEN q + 1
        ELSE IF q % 2 = 0 THEN q ELSE q + 1

\* JSON values as Python holds them; a dict is its items in insertion order
JNull       == [kind |-> "null", num |-> 0, str |-> "", items |-> <<>>]
JNum(n)     == [kind |-> "num", num |-> n, str |-> "", items |-> <<>>]
JStr(s)     == [kind |-> "str", num |-> 0, str |-> s, items |-> <<>>]
JList(xs)   == [kind |-> "list", num |-> 0, str |-> "", items |-> xs]
JDict(kvs)  == [kind |-> "dict", num |-> 0, str |-> "", items |-> kvs]

\* bool(x)
Truthy(x) ==
    CASE x.kind = "null" -> FALSE
      [] x.kind = "num"  -> x.num # 0
      [] x.kind = "str"  -> x.str # ""
      [] OTHER           -> x.items # <<>>

\* {k: round(v/total_files*100, 1) for k, v in language_stats.items()}
Percentages(stats, total) ==
    JDict([i \in 1..Len(stats) |-> <<stats[i][1], JNum(RoundPercent(stats[i][2], total))>>])

\* if total_files > 0: return {...}; return {}
FolderResult(stats, total) ==
    IF total > 0 THEN Percentages(stats, total) ELSE JDict(<<>>)

\* the divisions by total_files that the return statement evaluates
FolderDivisions(stats, total) ==
    IF total > 0 THEN Len(stats) ELSE 0

\* {label: 100}
SingleResult(label) == JDict(<< <<label, JNum(Hundred)>> >>)

----------------------------------------------------------------------------
(* display_results *)

\* sorted(items, key=lambda x: x[1], reverse=True): stable, so equal values keep
\* their insertion order
RECURSIVE InsertDesc(_, _)
InsertDesc(sorted, item) ==
    IF sorted = <<>> THEN <<item>>
    ELSE IF Head(sorted)[2].num >= item[2].num
    THEN << Head(sorted) >> \o InsertDesc(Tail(sorted), item)
    ELSE << item >> \o sorted

RECURSIVE SortDesc(_)
SortDesc(items) ==
    IF items = <<>> THEN <<>>
    ELSE InsertDesc(SortDesc(SubSeq(items, 1, Len(items) - 1)), items[Len(items)])

AllNumbers(items) == \A i \in 1..Len(items) : items[i][2].kind = "num"

NothingPrinted == [form |-> "none", crash |-> FALSE, lines |-> <<>>]
Crashed        == [form |-> "none", crash |-> TRUE, lines |-> <<>>]

\* len(results) == 1 and list(results.values())[0] == 100
LooksLikeSingleFile(res) ==
    /\ Len(res.items) = 1
    /\ res.items[1][2].kind = "num"
    /\ res.items[1][2].num = Hundred

\* What display_results prints, or that it raises:
\*   form "noresults": "No results could be generated"
\*   form "single":    "Language: <label>", lines = <<100, label>>
\*   form "breakdown": one "<percent>% | <label>" line per item, lines = <<percent, label>>
\* len() of a number raises TypeError; a str or list has no .values()/.items()
\* (AttributeError); a non-number fails in the sort or in the format :>5.1f.
DisplayResults(res) ==
    IF ~Truthy(res)
    THEN [form |-> "noresults", crash |-> FALSE, lines |-> <<>>]
    ELSE IF res.kind # "dict" THEN Crashed
    ELSE IF LooksLikeSingleFile(res)
    THEN [form |-> "single", crash |-> FALSE,
          lines |-> << <<res.items[1][2].num, res.items[1][1]>> >>]
    ELSE IF ~AllNumbers(res.items) THEN Crashed
    ELSE LET sorted == SortDesc(res.items)
         IN  [form |-> "breakdown", crash |-> FALSE,
              lines |-> [i \in 1..Len(sorted) |-> <<sorted[i][2].num, sorted[i][1]>>]]

\* results.get(key, default)
DictGet(d, key, default) ==
    LET hits == {i \in 1..Len(d.items) : d.items[i][1] = key}
    IN  IF hits = {} THEN default ELSE d.items[CHOOSE i \in hits : TRUE][2]

\* the argument of display_results: choice "1" passes
\* results.get('breakdown', results) if isinstance(results, dict) else results
Shown(c, res) ==
    IF c = "1" /\ res.kind = "dict" THEN DictGet(res, "breakdown", res) ELSE res

----------------------------------------------------------------------------
(* detect_with_linguist *)

NumericBreakdown == JDict(<< <<"Python", JNum(600)>>, <<"C", JNum(400)>> >>)

\* what json.loads(result.stdout) can be
LinguistOutputs ==
    { JDict(<<>>), JNull,
      JDict(<< <<"Python", JNum(Hundred)>> >>),
      NumericBreakdown,
      JDict(<< <<"breakdown", NumericBreakdown>> >>),
      \* github-linguist --breakdown --json: language -> {size, percentage, files}
      JDict(<< <<"Python", JDict(<< <<"size", JNum(120)>>, <<"percentage", JStr("100.00")>> >>)>> >>),
      JList(<< JStr("Python") >>),
      JNum(500),
      JStr("Python") }

\* how the subprocess ends: the tool is absent (FileNotFoundError), exits non-zero
\* (CalledProcessError), runs over 30 s (TimeoutExpired), prints no JSON
\* (JSONDecodeError), or prints JSON
LinguistRuns ==
    {[status |-> st, value |-> JNull] : st \in {"notfound", "exit", "timeout", "badjson"}}
    \cup {[status |-> "parsed", value |-> v] : v \in LinguistOutputs}

\* the value detect_with_linguist returns (None on every except branch)
DetectWithLinguist(run) == IF run.status = "parsed" THEN run.value ELSE JNull

\* which branch of detect_with_linguist returned
LinguistBranch(run) ==
    CASE run.status = "parsed"   -> "parsed"
      [] run.status = "notfound" -> "notfound"
      [] OTHER                   -> "error"

\* `if results is None:` in place of `if not results:`
NeedsFallbackOnlyNone(res) == res.kind = "null"

\* `if not results:` in main_menu: fall back to pygments
NeedsFallback(res) == ~Truthy(res)

----------------------------------------------------------------------------
(* The directory walk *)

\* a subdirectory yielded by rglob: open() on it raises IsADirectoryError
SubDir ==
    [name |-> <<"s", "u", "b">>, readable |-> FALSE, content |-> EmptyFile,
     guess |-> ClassNotFound, byname |-> ClassNotFound]

\* what path.rglob('*') yields: regular files and subdirectories
Entries ==
    {[kind |-> "file", f |-> f] : f \in Files} \cup {[kind |-> "dir", f |-> SubDir]}

\* the loop body without the is_file() test
IsAnyEntry(e) == TRUE

\* file.is_file()
IsFile(e) == e.kind = "file"

----------------------------------------------------------------------------
(* The state machine *)

MenuChoices == {"1", "2", "3", "0", "x"}

Init ==
    /\ pc = "menu"
    /\ choice = ""
    /\ collab = "none"
    /\ linguist = JNull
    /\ pathKind = "none"
    /\ usedInternal = FALSE
    /\ remaining = 0
    /\ language_stats = <<>>
    /\ total_files = 0
    /\ regularSeen = 0
    /\ last = NoFile
    /\ divisions = 0
    /\ results = JNull
    /\ printed = NothingPrinted

\* choice = input("Enter your choice: ").strip(); what the previous command left
\* behind is forgotten
Prompt ==
    /\ pc = "menu"
    /\ \E c \in MenuChoices : choice' = c
    /\ pc' = "chosen"
    /\ collab' = "none"
    /\ linguist' = JNull
    /\ pathKind' = "none"
    /\ usedInternal' = FALSE
    /\ remaining' = 0
    /\ language_stats' = <<>>
    /\ total_files' = 0
    /\ regularSeen' = 0
    /\ last' = NoFile
    /\ divisions' = 0
    /\ results' = JNull
    /\ printed' = NothingPrinted

\* display_results(...) and back to the top of `while True`, unless it raised
Display(shown) ==
    LET d == DisplayResults(shown)
    IN  /\ results' = shown
        /\ printed' = d
        /\ pc' = IF d.crash THEN "crashed" ELSE "menu"

\* choices "1" and "2" when github-linguist gave a truthy value: it is displayed
DetectByLinguist ==
    /\ pc = "chosen"
    /\ choice \in {"1", "2"}
    /\ \E run \in LinguistRuns, kind \in {"file", "dir"} :
         LET res == DetectWithLinguist(run)
         IN  /\ ~NeedsFallback(res)
             /\ collab' = LinguistBranch(run)
             /\ linguist' = res
             /\ pathKind' = kind
             /\ Display(Shown(choice, res))
    /\ UNCHANGED <<choice, usedInternal, remaining, language_stats, total_files,
                   regularSeen, last, divisions>>

\* choices "1" and "2", fallback, path.is_file(): the single-file branch of
\* pygments_language_detect, then display_results
DetectSingleFile ==
    /\ pc = "chosen"
    /\ choice \in {"1", "2"}
    /\ \E run \in LinguistRuns, f \in Files :
         LET r == DetectFile(f)
         IN  /\ NeedsFallback(DetectWithLinguist(run))
             /\ collab' = LinguistBranch(run)
             /\ linguist' = DetectWithLinguist(run)
             /\ last' = Observed(f, r)
             /\ Display(Shown(choice, SingleResult(r.label)))
    /\ pathKind' = "file"
    /\ usedInternal' = TRUE
    /\ UNCHANGED <<choice, remaining, language_stats, total_files, regularSeen,
                   divisions>>

\* choices "1" and "2", fallback, not path.is_file(): the folder branch starts its
\* walk (a path that does not exist walks over nothing)
StartScan ==
    /\ pc = "chosen"
    /\ choice \in {"1", "2"}
    /\ \E run \in LinguistRuns, n \in 0..MaxEntries :
         /\ NeedsFallback(DetectWithLinguist(run))
         /\ collab' = LinguistBranch(run)
         /\ linguist' = DetectWithLinguist(run)
         /\ remaining' = n
    /\ pathKind' = "dir"
    /\ usedInternal' = TRUE
    /\ pc' = "scan"
    /\ UNCHANGED <<choice, language_stats, total_files, regularSeen, last, divisions,
                   results, printed>>

\* one iteration of `for file in path.rglob('*')`
ScanStep ==
    /\ pc = "scan"
    /\ remaining > 0
    /\ remaining' = remaining - 1
    /\ \E e \in Entries :
         /\ regularSeen' = IF e.kind = "file" THEN regularSeen + 1 ELSE regularSeen
         /\ IF IsFile(e)
            THEN LET r == ScanFile(e.f)
                 IN  /\ total_files' = total_files + 1
                     /\ language_stats' = Increment(language_stats, r.label)
                     /\ last' = Observed(e.f, r)
            ELSE UNCHANGED <<total_files, language_stats, last>>
    /\ UNCHANGED <<pc, choice, collab, linguist, pathKind, usedInternal, divisions, results, printed>>

\* the walk is over: the percentages are returned and displayed
ScanFinish ==
    /\ pc = "scan"
    /\ remaining = 0
    /\ divisions' = FolderDivisions(language_stats, total_files)
    /\ Display(Shown(choice, FolderResult(language_stats, total_files)))
    /\ UNCHANGED <<choice, collab, linguist, pathKind, usedInternal, remaining, language_stats,
                   total_files, regularSeen, last>>

\* choice "3": install_dependencies catches CalledProcessError only, so a missing
\* sudo, gem or pip (FileNotFoundError from subprocess.run) leaves main_menu
Install ==
    /\ pc = "chosen"
    /\ choice = "3"
    /\ \E outcome \in {"ok", "CalledProcessError", "FileNotFoundError"} :
         pc' = IF outcome = "FileNotFoundError" THEN "crashed" ELSE "menu"
    /\ UNCHANGED <<choice, collab, linguist, pathKind, usedInternal, remaining, language_stats,
                   total_files, regularSeen, last, divisions, results, printed>>

\* choice "0": break
Exit ==
    /\ pc = "chosen"
    /\ choice = "0"
    /\ pc' = "exited"
    /\ UNCHANGED <<choice, collab, linguist, pathKind, usedInternal, remaining, language_stats,
                   total_files, regularSeen, last, divisions, results, printed>>

\* anything else: "Invalid choice. Please try again."
Invalid ==
    /\ pc = "chosen"
    /\ choice \notin {"1", "2", "3", "0"}
    /\ pc' = "menu"
    /\ UNCHANGED <<choice, collab, linguist, pathKind, usedInternal, remaining, language_stats,
                   total_files, regularSeen, last, divisions, results, printed>>

Next ==
    \/ Prompt
    \/ DetectByLinguist
    \/ DetectSingleFile
    \/ StartScan
    \/ ScanStep
    \/ ScanFinish
    \/ Install
    \/ Exit
    \/ Invalid

Spec == Init /\ [][Next]_vars

----------------------------------------------------------------------------
(* Properties *)

\* the internal classifier has handled a file path / a directory path
InternalFile == usedInternal /\ pathKind = "file" /\ last.seen
InternalDir  == usedInternal /\ pathKind = "dir"
\* pygments_language_detect has returned from its folder branch
ScanReturned == InternalDir /\ pc \in {"menu", "crashed"}

\* sum(language_stats.values()) and language_stats.get(label, 0)
RECURSIVE SumCounts(_)
SumCounts(stats) ==
    IF stats = <<>> THEN 0 ELSE Head(stats)[2] + SumCounts(Tail(stats))

CountOf(stats, label) ==
    LET hits == {i \in 1..Len(stats) : stats[i][1] = label}
    IN  IF hits = {} THEN 0 ELSE stats[CHOOSE i \in hits : TRUE][2]

RECURSIVE SumPercent(_)
SumPercent(items) ==
    IF items = <<>> THEN 0 ELSE Head(items)[2].num + SumPercent(Tail(items))

Abs(x) == IF x < 0 THEN -x ELSE x

\* C1: a readable file without binary extension whose sample decodes and for which
\* neither guess_lexer_for_filename nor get_lexer_for_filename finds a lexer is
\* labelled 'Unknown', in single-file and in directory mode.
C1_LexerMissIsUnknown ==
    (last.seen /\ last.io = "ok" /\ last.decoded = "ok" /\ last.lexer = "none")
        => last.label = "Unknown"

\* C2: a file whose suffix is a registered binary extension is labelled 'Binary'
\* and is never opened, in single-file mode (the result is {'Binary': 100}) and in
\* directory mode (the 'Binary' counter holds it).
C2_BinaryExtensionNeverOpened ==
    (last.seen /\ Suffix(last.name) \in binary_extensions)
        => /\ last.label = "Binary"
           /\ last.io = "n/a"
           /\ InternalFile => results = JDict(<< <<"Binary", JNum(Hundred)>> >>)
           /\ InternalDir => CountOf(language_stats, "Binary") >= 1

C2_Witness ==
    /\ InternalDir
    /\ last.seen
    /\ last.name = TarGzName
    /\ ~last.fileValid
    /\ last.label = "Binary"
    /\ last.io = "n/a"

\* C3 as stated: every file whose content is not valid UTF-8 is labelled 'Binary',
\* wherever in the file the invalid bytes are (no read failure assumed).
C3_InvalidContentIsBinary ==
    (last.seen /\ ~last.fileValid /\ last.io # "fail") => last.label = "Binary"

\* C3 amended: every file whose first 8192 bytes are not valid UTF-8 is labelled
\* 'Binary' whatever its extension, unless opening or reading it fails.
C3_InvalidSampleIsBinary ==
    (last.seen /\ ~last.sampleValid /\ last.io # "fail") => last.label = "Binary"

C3_Witness ==
    /\ last.seen
    /\ last.name = PyName
    /\ ~last.sampleValid
    /\ last.decoded = "fail"
    /\ last.label = "Binary"

\* C4: a file that cannot be opened or read is labelled 'Error' (not 'Binary', no
\* exception); in a directory scan it is tallied under 'Error', every regular file
\* yielded so far is counted, and the walk runs to its end.
C4_ReadFailureIsError ==
    /\ (last.seen /\ last.io = "fail")
          => /\ last.label = "Error"
             /\ pc # "crashed"
             /\ InternalFile => results = JDict(<< <<"Error", JNum(Hundred)>> >>)
             /\ InternalDir => CountOf(language_stats, "Error") >= 1
    /\ InternalDir => total_files = regularSeen
    /\ ScanReturned => remaining = 0

C4_Witness ==
    /\ pc = "scan"
    /\ remaining > 0
    /\ total_files >= 2
    /\ last.io = "fail"
    /\ last.label = "Error"
    /\ CountOf(language_stats, "Error") = 1

\* C5: whatever the choices and their outcomes, the process ends only by choice "0":
\* no uncaught exception leaves main_menu.
C5_LoopSurvives == pc # "crashed"

C7_PercentagesSumTo100 ==
    (pc = "menu" /\ InternalDir /\ total_files > 0)
        => Abs(SumPercent(results.items) - Hundred) <= Len(results.items)

C7_Witness ==
    /\ pc = "menu"
    /\ InternalDir
    /\ total_files = 3
    /\ Len(results.items) = 3
    /\ SumPercent(results.items) = Hundred - 1

\* C8: a directory tree without regular files yields the empty breakdown, and no
\* division by total_files is evaluated.
C8_NoFilesEmptyBreakdown ==
    (ScanReturned /\ regularSeen = 0)
        => /\ results = JDict(<<>>)
           /\ divisions = 0
           /\ pc = "menu"

C8_Witness ==
    /\ pc = "menu"
    /\ InternalDir
    /\ regularSeen = 0
    /\ total_files = 0
    /\ results = JDict(<<>>)
    /\ printed.form = "noresults"

\* C9: between files of a directory scan the counts of language_stats are positive
\* integers, one per label, and sum to total_files.
C9_CountsSumToTotal ==
    InternalDir
        => /\ SumCounts(language_stats) = total_files
           /\ \A i \in 1..Len(language_stats) : language_stats[i][2] \in Nat \ {0}
           /\ \A i, j \in 1..Len(language_stats) :
                 language_stats[i][1] = language_stats[j][1] => i = j

C9_Witness ==
    /\ pc = "scan"
    /\ remaining > 0
    /\ total_files = 2
    /\ language_stats = << <<"Binary", 1>>, <<"Python", 1>> >>
    /\ last.lexer = "byname"

\* C10: a non-empty directory result is printed as the breakdown listing, one line
\* per label in descending order of percentage; the 'Language: <label>' form is
\* printed for single-file results only.
C10_FolderPrintsBreakdown ==
    (pc = "menu" /\ InternalDir /\ total_files > 0)
        => /\ printed.form = "breakdown"
           /\ Len(printed.lines) = Len(language_stats)
           /\ \A i \in 1..(Len(printed.lines) - 1) :
                 printed.lines[i][1] >= printed.lines[i + 1][1]

====
